---- MODULE Spec2Model ----
(***************************************************************************)
(* The Director pattern of the dotfiles repository: the generate / execute *)
(* / evaluate / retry loop, in its two implementations                     *)
(*   - Director        (src/bin/director.py), and                          *)
(*   - WorkflowAgent   (src/bin/pydantic_adw/agent.py, run through         *)
(*                      src/bin/pydantic_adw/cli.py run_workflow).         *)
(* Text is a sequence of one-character strings, so that substring tests,   *)
(* prefixes and case folding are computed as Python computes them.         *)
(***************************************************************************)
EXTENDS Integers, Sequences, FiniteSets, TLC

(***************************************************************************)
(* Bounds                                                                  *)
(***************************************************************************)
\* largest max_iterations a descriptor carries in the model
MaxN == 2

(***************************************************************************)
(* Text helpers (Python str operations)                                    *)
(***************************************************************************)
\* str.lower() on one character
LowerChar(c) ==
  CASE c = "A" -> "a" [] c = "B" -> "b" [] c = "C" -> "c" [] c = "D" -> "d"
    [] c = "E" -> "e" [] c = "F" -> "f" [] c = "G" -> "g" [] c = "H" -> "h"
    [] c = "I" -> "i" [] c = "J" -> "j" [] c = "K" -> "k" [] c = "L" -> "l"
    [] c = "M" -> "m" [] c = "N" -> "n" [] c = "O" -> "o" [] c = "P" -> "p"
    [] c = "Q" -> "q" [] c = "R" -> "r" [] c = "S" -> "s" [] c = "T" -> "t"
    [] c = "U" -> "u" [] c = "V" -> "v" [] c = "W" -> "w" [] c = "X" -> "x"
    [] c = "Y" -> "y" [] c = "Z" -> "z" [] OTHER -> c

\* str.lower()
Lower(s) == [i \in DOMAIN s |-> LowerChar(s[i])]

\* Python `sub in s`
Contains(sub, s) ==
  \E i \in 1..(Len(s) - Len(sub) + 1) : SubSeq(s, i, i + Len(sub) - 1) = sub

\* Python s.startswith(p)
StartsWith(p, s) == Len(p) <= Len(s) /\ SubSeq(s, 1, Len(p)) = p
\* a is a prefix of b
IsPrefix(a, b) == Len(a) <= Len(b) /\ SubSeq(b, 1, Len(a)) = a

(***************************************************************************)
(* Literal texts of the source                                             *)
(***************************************************************************)
\* "ERROR: Execution timed out after 5 minutes"
TimeoutText == <<"E","R","R","O","R",":"," ","E","x","e","c","u","t","i","o","n"," ","t","i","m","e","d"," ","o","u","t"," ","a","f","t","e","r"," ","5"," ","m","i","n","u","t","e","s">>
\* the "ERROR: " of f"ERROR: {str(e)}"
ErrorPrefix == <<"E","R","R","O","R",":"," ">>
\* the "ERROR:" sentinel the command executor's failures start with
ErrorSentinel == <<"E","R","R","O","R",":">>
\* "Execution failed with errors: "
HeuristicFailedText == <<"E","x","e","c","u","t","i","o","n"," ","f","a","i","l","e","d"," ","w","i","t","h"," ","e","r","r","o","r","s",":"," ">>
\* "Execution completed without obvious errors."
HeuristicOkText == <<"E","x","e","c","u","t","i","o","n"," ","c","o","m","p","l","e","t","e","d"," ","w","i","t","h","o","u","t"," ","o","b","v","i","o","u","s"," ","e","r","r","o","r","s",".">>
\* "Tests failed. Please fix the following issues:\n"
TestsFailedText == <<"T","e","s","t","s"," ","f","a","i","l","e","d","."," ","P","l","e","a","s","e"," ","f","i","x"," ","t","h","e"," ","f","o","l","l","o","w","i","n","g"," ","i","s","s","u","e","s",":","\n">>
\* "All tests passed successfully."
TestsPassedText == <<"A","l","l"," ","t","e","s","t","s"," ","p","a","s","s","e","d"," ","s","u","c","c","e","s","s","f","u","l","l","y",".">>
\* "Unable to determine test results. Output:\n"
UndeterminedText == <<"U","n","a","b","l","e"," ","t","o"," ","d","e","t","e","r","m","i","n","e"," ","t","e","s","t"," ","r","e","s","u","l","t","s","."," ","O","u","t","p","u","t",":","\n">>
\* "Failed to perform structured evaluation: "
StructuredFailedText == <<"F","a","i","l","e","d"," ","t","o"," ","p","e","r","f","o","r","m"," ","s","t","r","u","c","t","u","r","e","d"," ","e","v","a","l","u","a","t","i","o","n",":"," ">>

\* the tokens the evaluators and the routing look for
TokGpt == <<"g","p","t">>
TokClaude == <<"c","l","a","u","d","e">>
TokError == <<"e","r","r","o","r">>
TokFail == <<"f","a","i","l">>
TokFAILED == <<"F","A","I","L","E","D">>
TokERROR == <<"E","R","R","O","R">>
TokOK == <<"O","K">>
TokPassed == <<"p","a","s","s","e","d">>
TokFailed == <<"f","a","i","l","e","d">>

(***************************************************************************)
(* Inputs: what the environment can hand to the program                    *)
(***************************************************************************)
\* stdout+stderr of a command that ran to completion
NormalOutputs == { <<"O","K">>,
                   <<"1"," ","p","a","s","s","e","d">>,
                   <<"1"," ","f","a","i","l","e","d">> }
\* str(e) of an exception raised by subprocess.run
ExceptionTexts == { <<"b","o","o","m">> }
\* evaluator_model values of a descriptor
ModelIds == { <<"g","p","t">>, <<"c","l","a","u","d","e">>, <<"G","P","T">>, <<"o","1">> }
\* evaluator tags a descriptor can carry ("bogus" stands for any other text)
EvaluatorTags == {"default", "unittest", "pytest", "structured", "custom", "bogus"}
\* feedback text of a verdict produced by the judgment capability
JudgeFeedback == <<"f","i","x">>
\* outcomes of one judgment-capability call of the Director
JudgeOutcomes == {"raise", "unparsable", "success", "failure"}
\* outcomes of evaluator_agent.run: pydantic_ai raises on a call failure and
\* on a response it cannot validate as the result type, so both are "raise"
AgentOutcomes == {"raise", "success", "failure"}
\* outcomes of failure_agent.run, the same way
AnalyzerOutcomes == {"ok", "raise"}

\* an attribute / field holding text, or not existing yet
Unset == [set |-> FALSE, text |-> <<>>]
Text(t) == [set |-> TRUE, text |-> t]

\* Python None for an EvaluationResult / StructuredEvaluation slot
NoEvaluation == [set |-> FALSE, success |-> FALSE, feedback |-> <<>>]
\* EvaluationResult(success=..., feedback=...)
EvaluationResult(s, f) == [set |-> TRUE, success |-> s, feedback |-> f]

(***************************************************************************)
(* Replies of the judgment capability: payload extraction and parsing      *)
(***************************************************************************)
\* the characters str.strip() removes
Whitespace == {" ", "\n", "\t"}

RECURSIVE LStrip(_)
\* str.lstrip()
LStrip(s) == IF s # <<>> /\ Head(s) \in Whitespace THEN LStrip(Tail(s)) ELSE s

RECURSIVE RStrip(_)
\* str.rstrip()
RStrip(s) ==
  IF s # <<>> /\ s[Len(s)] \in Whitespace THEN RStrip(SubSeq(s, 1, Len(s) - 1)) ELSE s

\* str.strip()
Strip(s) == RStrip(LStrip(s))

\* str.find(sep, start): the first position >= from where sep occurs in s,
\* counted from 1; 0 when there is none
Find(sep, s, from) ==
  LET hits == {i \in from..(Len(s) - Len(sep) + 1) : SubSeq(s, i, i + Len(sep) - 1) = sep}
  IN  IF hits = {} THEN 0 ELSE CHOOSE i \in hits : \A j \in hits : i <= j

\* s.split(sep)[0]
SplitFirst(sep, s) ==
  LET i == Find(sep, s, 1) IN IF i = 0 THEN s ELSE SubSeq(s, 1, i - 1)

\* s.split(sep)[1], for s that contains sep
SplitSecond(sep, s) ==
  LET i == Find(sep, s, 1)
  IN  SplitFirst(sep, SubSeq(s, i + Len(sep), Len(s)))

\* the character U+0060, which a string of this module cannot hold: texts
\* carry this element in its place
Backtick == "backtick"
\* the triple-backtick fence, plain and tagged json
Fence == <<Backtick, Backtick, Backtick>>
JsonFence == Fence \o <<"j","s","o","n">>

\* "Extract JSON from response" of _default_evaluator
DefaultExtract(response_text) ==
  IF Contains(JsonFence, response_text)
  THEN Strip(SplitFirst(Fence, SplitSecond(JsonFence, response_text)))
  ELSE IF Contains(Fence, response_text)
  THEN Strip(SplitFirst(Fence, SplitSecond(Fence, response_text)))
  ELSE Strip(response_text)

\* "Extract JSON from the response if needed" of _structured_evaluator:
\* there is no else branch, text without a fence is passed on as it is
StructuredExtract(evaluation_json) ==
  IF Contains(JsonFence, evaluation_json)
  THEN Strip(SplitFirst(Fence, SplitSecond(JsonFence, evaluation_json)))
  ELSE IF Contains(Fence, evaluation_json)
  THEN Strip(SplitFirst(Fence, SplitSecond(Fence, evaluation_json)))
  ELSE evaluation_json

\* the StructuredEvaluation fields the model carries: success,
\* task_completion (in hundredths), security_check (passed, and the risk_level
\* that varies) and feedback; test_results, changeset and next_steps have
\* defaults and are left at them
Keys == {"success", "task_completion", "security_check", "feedback"}
\* the float 1.0, in hundredths
One == 100
\* the Literal of SecurityCheck.risk_level
RiskLevels == { <<"l","o","w">>, <<"m","e","d","i","u","m">>, <<"h","i","g","h">>, <<"c","r","i","t","i","c","a","l">> }

\* text fields a judgment puts into its payload: plain, and holding a fence
FeedbackTexts == { JudgeFeedback, <<"a">> \o Fence \o <<"b">> }

\* a payload the judgment capability always means to send
FullDoc(s) == [keys |-> Keys, success |-> s, task_completion |-> One,
               risk_level |-> <<"l","o","w">>, feedback |-> JudgeFeedback]

\* the JSON objects of the model: the complete ones, and one departure from
\* a complete one at a time (a key left out, a task_completion outside
\* [0.0, 1.0], a risk_level outside the Literal)
JsonDocs ==
  { d \in [ keys : {Keys, Keys \ {"success"}, Keys \ {"task_completion"}, Keys \ {"feedback"}},
            success : BOOLEAN,
            task_completion : {0 - 1, 0, One, One + 1},
            risk_level : {<<"l","o","w">>, <<"c","r","i","t","i","c","a","l">>, <<"b","o","g","u","s">>},
            feedback : FeedbackTexts ] :
      \/ d.keys = Keys /\ d.task_completion \in {0, One} /\ d.risk_level \in RiskLevels
      \/ \E k \in {"success", "task_completion", "feedback"} :
           d = [FullDoc(TRUE) EXCEPT !.keys = Keys \ {k}]
      \/ \E n \in {0 - 1, One + 1} : d = [FullDoc(TRUE) EXCEPT !.task_completion = n]
      \/ d = [FullDoc(TRUE) EXCEPT !.risk_level = <<"b","o","g","u","s">>] }

\* the decimal digits
Digits == <<"0","1","2","3","4","5","6","7","8","9">>
\* json.dumps of a float given in hundredths, as repr writes it: 0.0, 1.0,
\* 0.5, -0.01, 1.01
NumberText(n) ==
  LET a == IF n < 0 THEN 0 - n ELSE n
      tenths == (a % 100) \div 10
      hundredths == a % 10
  IN  (IF n < 0 THEN <<"-">> ELSE <<>>)
        \o <<Digits[(a \div 100) + 1], ".", Digits[tenths + 1]>>
        \o (IF hundredths = 0 THEN <<>> ELSE <<Digits[hundredths + 1]>>)

\* the text up to each member's value
KeySuccess == <<"\"","s","u","c","c","e","s","s","\"",":"," ">>
KeyTaskCompletion == <<"\"","t","a","s","k","_","c","o","m","p","l","e","t","i","o","n","\"",":"," ">>
KeySecurityCheck == <<"\"","s","e","c","u","r","i","t","y","_","c","h","e","c","k","\"",":"," ","{","\"","p","a","s","s","e","d","\"",":"," ","t","r","u","e",","," ","\"","r","i","s","k","_","l","e","v","e","l","\"",":"," ","\"">>
KeyFeedback == <<"\"","f","e","e","d","b","a","c","k","\"",":"," ","\"">>

\* one "key": value member of a serialized object
MemberText(d, k) ==
  CASE k = "success" -> KeySuccess \o (IF d.success THEN <<"t","r","u","e">> ELSE <<"f","a","l","s","e">>)
    [] k = "task_completion" -> KeyTaskCompletion \o NumberText(d.task_completion)
    [] k = "security_check" -> KeySecurityCheck \o d.risk_level \o <<"\"","}">>
    [] k = "feedback" -> KeyFeedback \o d.feedback \o <<"\"">>

RECURSIVE Join(_)
\* ", ".join(members)
Join(ms) ==
  IF ms = <<>> THEN <<>>
  ELSE IF Len(ms) = 1 THEN ms[1]
  ELSE ms[1] \o <<",", " ">> \o Join(Tail(ms))

\* json.dumps of an object: its members in declaration order
Dumps(d) ==
  LET order == <<"success", "task_completion", "security_check", "feedback">>
      present == SelectSeq(order, LAMBDA k : k \in d.keys)
  IN  <<"{">> \o Join([i \in 1..Len(present) |-> MemberText(d, present[i])]) \o <<"}">>

\* a text that is no JSON
NotJsonText == <<"n","o"," ","j","s","o","n">>
\* an object with no member yet
EmptyDoc == [keys |-> {}, success |-> FALSE, task_completion |-> 0,
             risk_level |-> <<"l","o","w">>, feedback |-> <<>>]
\* what json.loads yields when it raises
NotLoaded == [ok |-> FALSE, doc |-> EmptyDoc]

\* s without its first n characters
Drop(n, s) == SubSeq(s, n + 1, Len(s))

\* c is a decimal digit
IsDigit(c) == \E i \in 1..10 : Digits[i] = c
\* the value of the decimal digit c
DigitValue(c) == (CHOOSE i \in 1..10 : Digits[i] = c) - 1

\* a JSON number of the form [-]d.d or [-]d.dd, in hundredths
ReadNumber(s) ==
  LET neg == s # <<>> /\ Head(s) = "-"
      u == IF neg THEN Tail(s) ELSE s
      two == Len(u) >= 4 /\ IsDigit(u[4])
  IN  IF Len(u) >= 3 /\ IsDigit(u[1]) /\ u[2] = "." /\ IsDigit(u[3])
      THEN [ok |-> TRUE,
            value |-> (IF neg THEN 0 - 1 ELSE 1)
                        * (100 * DigitValue(u[1]) + 10 * DigitValue(u[3])
                             + (IF two THEN DigitValue(u[4]) ELSE 0)),
            rest |-> Drop(IF two THEN 4 ELSE 3, u)]
      ELSE [ok |-> FALSE, value |-> 0, rest |-> s]

\* a JSON string without escapes, after its opening quote: the text up to
\* the closing quote
ReadString(s) ==
  LET q == Find(<<"\"">>, s, 1)
  IN  IF q = 0 THEN [ok |-> FALSE, value |-> <<>>, rest |-> s]
      ELSE [ok |-> TRUE, value |-> SubSeq(s, 1, q - 1), rest |-> Drop(q, s)]

\* one member at the head of s, put into the object d
ReadMember(s, d) ==
  LET fail == [ok |-> FALSE, doc |-> d, rest |-> s]
      got(k, e, rest) == [ok |-> TRUE, doc |-> [e EXCEPT !.keys = @ \cup {k}], rest |-> rest]
  IN  IF StartsWith(KeySuccess, s)
      THEN LET v == Drop(Len(KeySuccess), s)
           IN  IF StartsWith(<<"t","r","u","e">>, v)
               THEN got("success", [d EXCEPT !.success = TRUE], Drop(4, v))
               ELSE IF StartsWith(<<"f","a","l","s","e">>, v)
               THEN got("success", [d EXCEPT !.success = FALSE], Drop(5, v))
               ELSE fail
      ELSE IF StartsWith(KeyTaskCompletion, s)
      THEN LET n == ReadNumber(Drop(Len(KeyTaskCompletion), s))
           IN  IF n.ok THEN got("task_completion", [d EXCEPT !.task_completion = n.value], n.rest)
               ELSE fail
      ELSE IF StartsWith(KeySecurityCheck, s)
      THEN LET r == ReadString(Drop(Len(KeySecurityCheck), s))
           IN  IF r.ok /\ StartsWith(<<"}">>, r.rest)
               THEN got("security_check", [d EXCEPT !.risk_level = r.value], Drop(1, r.rest))
               ELSE fail
      ELSE IF StartsWith(KeyFeedback, s)
      THEN LET f == ReadString(Drop(Len(KeyFeedback), s))
           IN  IF f.ok THEN got("feedback", [d EXCEPT !.feedback = f.value], f.rest)
               ELSE fail
      ELSE fail

RECURSIVE ReadMembers(_, _)
\* what follows a member m: the closing brace, or a comma and more members
AfterMember(m) ==
  IF ~m.ok THEN NotLoaded
  ELSE IF m.rest = <<"}">> THEN [ok |-> TRUE, doc |-> m.doc]
  ELSE IF StartsWith(<<",", " ">>, m.rest) THEN ReadMembers(Drop(2, m.rest), m.doc)
  ELSE NotLoaded

\* the members of an object after its opening brace, up to its closing one
ReadMembers(s, d) == AfterMember(ReadMember(s, d))

\* json.loads, for the objects of the model: surrounding whitespace is
\* skipped, the text must be one object of known members; every other text
\* raises
Loads(t) ==
  LET s == Strip(t)
  IN  IF StartsWith(<<"{">>, s) THEN ReadMembers(Drop(1, s), EmptyDoc) ELSE NotLoaded

\* a validator whose bounds are exclusive
validate_completion_percentage_Exclusive(v) == ~(v <= 0 \/ v >= One)

\* the field_validator of StructuredEvaluation.task_completion
validate_completion_percentage(v) == ~(v < 0 \/ v > One)

\* the validation StructuredEvaluation applies to a loaded object l: the
\* required fields, task_completion and the risk_level Literal; feedback
\* defaults to ""
Validated(l) ==
  IF /\ l.ok
     /\ {"success", "task_completion", "security_check"} \subseteq l.doc.keys
     /\ validate_completion_percentage(l.doc.task_completion)
     /\ l.doc.risk_level \in RiskLevels
  THEN [ok |-> TRUE,
        doc |-> IF "feedback" \in l.doc.keys THEN l.doc
                ELSE [l.doc EXCEPT !.keys = Keys, !.feedback = <<>>]]
  ELSE NotLoaded

\* StructuredEvaluation(**d): the constructor validates its keyword arguments
StructuredEvaluation(d) == Validated([ok |-> TRUE, doc |-> d])

\* StructuredEvaluation.parse_raw: json.loads, then validation
parse_raw(t) == Validated(Loads(t))

\* the reply of the judgment capability: text, or an exception of the call
TextReply(t) == [kind |-> "text", text |-> t]
RaisedReply == [kind |-> "raise", text |-> <<>>]

\* one reply for each outcome of JudgeOutcomes
ReplyFor(j) ==
  CASE j = "raise" -> RaisedReply
    [] j = "unparsable" -> TextReply(NotJsonText)
    [] j = "success" -> TextReply(Dumps(FullDoc(TRUE)))
    [] j = "failure" -> TextReply(Dumps(FullDoc(FALSE)))

(***************************************************************************)
(* Judgment routing and the Director's evaluator family                    *)
(***************************************************************************)
\* Director.setup_llm_client: the client constructed for the evaluator model
setup_llm_client(model) ==
  IF Contains(TokGpt, Lower(model)) THEN "OpenAI"
  ELSE IF Contains(TokClaude, Lower(model)) THEN "Anthropic"
  ELSE "OpenAI"

\* the call interface _default_evaluator uses (case-sensitive tests)
DefaultInterface(model) ==
  IF Contains(TokGpt, model) THEN "OpenAI"
  ELSE IF Contains(TokClaude, model) THEN "Anthropic"
  ELSE "Unsupported"

\* the call interface _structured_evaluator uses
StructuredInterface(model) ==
  IF Contains(TokGpt, Lower(model)) THEN "OpenAI" ELSE "Anthropic"

\* the simple fallback evaluation of _default_evaluator's except branch
FallbackEvaluation(execution_output) ==
  IF Contains(TokError, Lower(execution_output)) \/ Contains(TokFail, Lower(execution_output))
  THEN EvaluationResult(FALSE, HeuristicFailedText \o execution_output)
  ELSE EvaluationResult(TRUE, HeuristicOkText)

\* what the trace records of a judgment step: the call was never made
\* because the model id routes to no usable interface, the call raised, its
\* response did not parse, or it produced a verdict
JudgeEvent(called, j) ==
  IF ~called THEN "judge:unroutable"
  ELSE IF j = "raise" THEN "judge:raise"
  ELSE IF j = "unparsable" THEN "judge:unparsable"
  ELSE "judge:ok"

\* the outcome of JudgeOutcomes a reply amounts to for an evaluator
Outcome(reply, parsed) ==
  IF reply.kind = "raise" THEN "raise" ELSE IF parsed THEN "success" ELSE "unparsable"

\* what the default evaluator yields once the reply is read: the verdict,
\* the log lines, the judgment step taken, the strategy that ran and the
\* payload extracted from the reply.  called: a judgment call was made;
\* got: it returned text; loaded: json.loads of json_str; parsed: the try
\* block ran to its end
DefaultVerdict(execution_output, called, got, reply, json_str, loaded, parsed) ==
  [ result |-> IF parsed THEN EvaluationResult(loaded.doc.success, loaded.doc.feedback)
               ELSE FallbackEvaluation(execution_output),
    log    |-> IF parsed THEN <<"evaluating">>
               ELSE <<"evaluating", "eval_error", "eval_fallback">>,
    judge  |-> <<JudgeEvent(called, Outcome(reply, parsed))>>,
    strategy |-> "default",
    payload |-> IF got THEN Text(json_str) ELSE Unset ]

\* result["success"] and result["feedback"] can be read from what was loaded
HasVerdict(loaded) == loaded.ok /\ {"success", "feedback"} \subseteq loaded.doc.keys

\* a default evaluator that takes the verdict from any reply that came back
default_evaluator_TrustReply(execution_output, model, client, reply) ==
  LET called == DefaultInterface(model) = client
      got == called /\ reply.kind = "text"
      json_str == IF got THEN DefaultExtract(reply.text) ELSE <<>>
  IN  DefaultVerdict(execution_output, called, got, reply, json_str,
                     IF got THEN Loads(json_str) ELSE NotLoaded, got)

\* Director._default_evaluator; reply is what the judgment call yields when
\* one is made
default_evaluator(execution_output, model, client, reply) ==
  LET called == DefaultInterface(model) = client
      got == called /\ reply.kind = "text"
      json_str == IF got THEN DefaultExtract(reply.text) ELSE <<>>
      loaded == IF got THEN Loads(json_str) ELSE NotLoaded
  IN  DefaultVerdict(execution_output, called, got, reply, json_str,
                     loaded, got /\ HasVerdict(loaded))

\* a unittest evaluator that does not look for "ERROR"
unittest_evaluator_NoERROR(execution_output) ==
  LET r == IF Contains(TokFAILED, execution_output)
           THEN EvaluationResult(FALSE, TestsFailedText \o execution_output)
           ELSE IF Contains(TokOK, execution_output)
           THEN EvaluationResult(TRUE, TestsPassedText)
           ELSE EvaluationResult(FALSE, UndeterminedText \o execution_output)
  IN  [result |-> r, log |-> <<>>, judge |-> <<>>, strategy |-> "unittest", payload |-> Unset]

\* Director._unittest_evaluator
unittest_evaluator(execution_output) ==
  LET r == IF Contains(TokFAILED, execution_output) \/ Contains(TokERROR, execution_output)
           THEN EvaluationResult(FALSE, TestsFailedText \o execution_output)
           ELSE IF Contains(TokOK, execution_output)
           THEN EvaluationResult(TRUE, TestsPassedText)
           ELSE EvaluationResult(FALSE, UndeterminedText \o execution_output)
  IN  [result |-> r, log |-> <<>>, judge |-> <<>>, strategy |-> "unittest", payload |-> Unset]

\* a pytest evaluator whose token tests are case-sensitive
pytest_evaluator_CaseSensitive(execution_output) ==
  LET r == IF Contains(TokFailed, execution_output)
           THEN EvaluationResult(FALSE, TestsFailedText \o execution_output)
           ELSE IF Contains(TokPassed, execution_output)
                   /\ ~Contains(TokFailed, execution_output)
           THEN EvaluationResult(TRUE, TestsPassedText)
           ELSE EvaluationResult(FALSE, UndeterminedText \o execution_output)
  IN  [result |-> r, log |-> <<>>, judge |-> <<>>, strategy |-> "pytest", payload |-> Unset]

\* Director._pytest_evaluator
pytest_evaluator(execution_output) ==
  LET r == IF Contains(TokFailed, Lower(execution_output))
           THEN EvaluationResult(FALSE, TestsFailedText \o execution_output)
           ELSE IF Contains(TokPassed, Lower(execution_output))
                   /\ ~Contains(TokFailed, Lower(execution_output))
           THEN EvaluationResult(TRUE, TestsPassedText)
           ELSE EvaluationResult(FALSE, UndeterminedText \o execution_output)
  IN  [result |-> r, log |-> <<>>, judge |-> <<>>, strategy |-> "pytest", payload |-> Unset]

\* "Feedback: ", the label of the feedback in the projected verdict
FeedbackLabel == <<"F","e","e","d","b","a","c","k",":"," ">>

\* what the structured evaluator yields once the reply is read; the
\* projected feedback is kept as its "Feedback: ..." part.  called: a
\* judgment call was made; got: it returned text; structured_eval: the
\* payload evaluation_json as read
StructuredVerdict(called, got, reply, evaluation_json, structured_eval) ==
  [ result |-> IF got /\ structured_eval.ok
               THEN EvaluationResult(structured_eval.doc.success,
                                     FeedbackLabel \o structured_eval.doc.feedback)
               ELSE EvaluationResult(FALSE, StructuredFailedText),
    log    |-> IF got /\ structured_eval.ok
               THEN <<"structured", "structured_eval", "structured_summary">>
               ELSE <<"structured", "structured_error">>,
    judge  |-> <<JudgeEvent(called, Outcome(reply, got /\ structured_eval.ok))>>,
    strategy |-> "structured",
    payload |-> IF got THEN Text(evaluation_json) ELSE Unset ]

\* a structured evaluator that reads the payload with json.loads alone
structured_evaluator_NoValidation(execution_output, model, client, reply) ==
  LET called == StructuredInterface(model) = client
      got == called /\ reply.kind = "text"
      evaluation_json == IF got THEN StructuredExtract(reply.text) ELSE <<>>
  IN  StructuredVerdict(called, got, reply, evaluation_json,
                        IF got THEN Loads(evaluation_json) ELSE NotLoaded)

\* Director._structured_evaluator
structured_evaluator(execution_output, model, client, reply) ==
  LET called == StructuredInterface(model) = client
      got == called /\ reply.kind = "text"
      evaluation_json == IF got THEN StructuredExtract(reply.text) ELSE <<>>
  IN  StructuredVerdict(called, got, reply, evaluation_json,
                        IF got THEN parse_raw(evaluation_json) ELSE NotLoaded)

\* a dispatch whose pytest branch calls the unittest evaluator
evaluate_result_PytestAsUnittest(tag, execution_output, model, client, reply) ==
  IF tag = "default" THEN default_evaluator(execution_output, model, client, reply)
  ELSE IF tag = "unittest" THEN unittest_evaluator(execution_output)
  ELSE IF tag = "pytest" THEN unittest_evaluator(execution_output)
  ELSE IF tag = "structured" THEN structured_evaluator(execution_output, model, client, reply)
  ELSE default_evaluator(execution_output, model, client, reply)

\* Director.evaluate_result: dispatch on the evaluator tag
evaluate_result(tag, execution_output, model, client, reply) ==
  IF tag = "default" THEN default_evaluator(execution_output, model, client, reply)
  ELSE IF tag = "unittest" THEN unittest_evaluator(execution_output)
  ELSE IF tag = "pytest" THEN pytest_evaluator(execution_output)
  ELSE IF tag = "structured" THEN structured_evaluator(execution_output, model, client, reply)
  ELSE default_evaluator(execution_output, model, client, reply)

\* the Literal of DirectorConfig.evaluator
DirectorTags == {"default", "unittest", "pytest", "custom", "structured"}
\* the Literal of WorkflowConfig.evaluator
WorkflowTags == {"default", "unittest", "pytest", "structured"}

(***************************************************************************)
(* State                                                                   *)
(***************************************************************************)
VARIABLES
  impl,                  \* which implementation runs: "director" | "agent"
  config,                \* the loaded descriptor (DirectorConfig / WorkflowConfig)
  pc,                    \* position of the controller
  iteration,             \* the loop variable of direct() / run()
  current_iteration,     \* WorkflowDependencies.current_iteration
  success,               \* the local `success` of direct() / run()
  evaluation,            \* the local `evaluation` of Director.direct
  last_evaluation,       \* WorkflowDependencies.last_evaluation
  execution_output,      \* the local `execution_output` of the loop body
  last_execution_output, \* Director.last_execution_output (an attribute that
                         \* may not exist yet) / deps.last_execution_output
  eval_input,            \* the execution output the last evaluation was given
  prompt,                \* the instruction last built for the coder capability
  llm_client,            \* Director.llm_client
  log_file,              \* the run's log file on disk
  strategy,              \* the evaluator strategy that produced the last verdict
  trace,                 \* the external steps taken so far, in order
  result,                \* what direct() / run() returned: "none" until then
  exit_status,           \* the status the entry point hands to sys.exit
  response,              \* the reply of the judgment capability to one evaluator call
  payload,               \* the payload an evaluator extracted from the reply
  source,                \* the value the reply was serialized from, if any
  applied,               \* the function applied to the inputs: "none" until then
  adw_status,            \* the status adw-create.py's main hands to sys.exit
  constructed,           \* how a StructuredEvaluation(...) call ended: "none" until then
  write_call,            \* the write_file call of the coder: the descriptor's context
                         \* lists and the file_path argument
  write_result,          \* what write_file returned: "none" until then
  file_system,           \* the locations files were written to
  run_no,                \* which run of the process this is: 1 or 2
  handlers,              \* the runs whose FileHandler is attached to the logger "adw"
  first_log              \* the log file of the first run, once a second run began

vars == <<impl, config, pc, iteration, current_iteration, success, evaluation,
          last_evaluation, execution_output, last_execution_output, eval_input,
          prompt, llm_client, log_file, strategy, trace, result, exit_status,
          response, payload, source, applied, adw_status, constructed,
          write_call, write_result, file_system,
          run_no, handlers, first_log>>

\* the process-wide state of logging
logger_vars == <<run_no, handlers, first_log>>

\* the variables of the calls made outside a run
tool_vars == <<constructed, write_call, write_result, file_system>>

\* the variables of one evaluator call taken on its own
call_vars == <<response, payload, source, applied, tool_vars>>

\* max_iterations values of a descriptor (the field is a plain int)
IterationValues == (0 - 1)..MaxN

\* the descriptors the model loads
Configs == [ max_iterations : IterationValues,
             evaluator : EvaluatorTags,
             evaluator_model : ModelIds,
             paths_exist : BOOLEAN ]

\* no write_file call made
NoWriteCall == [context_editable |-> {}, context_read_only |-> {}, file_path |-> <<>>]

\* a log destination nothing was written to
NoFile == [exists |-> FALSE, lines |-> <<>>]

\* states of the log file before the run
InitialLogFiles == { [exists |-> FALSE, lines |-> <<>>],
                     [exists |-> TRUE,  lines |-> <<"old">>] }

\* no prompt built yet
NoPrompt == [built |-> FALSE, task |-> FALSE, verbatim |-> FALSE, output |-> <<>>, feedback |-> <<>>,
             has_remaining |-> FALSE, remaining |-> 0, final |-> FALSE]

\* no reply received, no value serialized
NoResponse == [kind |-> "none", text |-> <<>>]
NoSource == [kind |-> "none", doc |-> FullDoc(FALSE), wrap |-> "bare"]

\* WorkflowAgent hands evaluator_model to pydantic_ai and never inspects it:
\* one model id stands for all of them there
AgentConfigs == {c \in Configs : c.evaluator_model = TokClaude}

Init ==
  /\ \/ impl = "director" /\ config \in Configs
     \/ impl = "agent" /\ config \in AgentConfigs
  /\ log_file \in InitialLogFiles
  /\ pc = "start"
  /\ iteration = 0
  /\ current_iteration = 0
  /\ success = FALSE
  /\ evaluation = NoEvaluation
  /\ last_evaluation = NoEvaluation
  /\ execution_output = <<>>
  /\ last_execution_output = Unset
  /\ eval_input = Unset
  /\ prompt = NoPrompt
  /\ llm_client = "none"
  /\ strategy = "none"
  /\ trace = <<>>
  /\ result = "none"
  /\ exit_status = 0 - 1
  /\ response = NoResponse
  /\ payload = Unset
  /\ source = NoSource
  /\ applied = "none"
  /\ adw_status = 0 - 1
  /\ constructed = "none"
  /\ write_call = NoWriteCall
  /\ write_result = "none"
  /\ file_system = {}
  /\ run_no = 1
  /\ handlers = {}
  /\ first_log = NoFile

\* f.write(...) in append mode
Append_lines(f, ls) == [exists |-> TRUE, lines |-> f.lines \o ls]
\* Python bool rendered as the run's result
Bool(b) == IF b THEN "True" ELSE "False"
\* number of occurrences of an event in the trace
Count(ev) == Cardinality({i \in DOMAIN trace : trace[i] = ev})

(***************************************************************************)
(* Director (src/bin/director.py)                                          *)
(***************************************************************************)
\* Director.clear_log_file: open(log_file, "w") and write the header
clear_log_file(f) == [exists |-> TRUE, lines |-> <<"header">>]

\* load_config's checks: the listed paths exist, the descriptor validates
load_config_ok(c) == c.paths_exist /\ c.evaluator \in DirectorTags

\* Director.__init__: load_config, setup_llm_client, clear_log_file.  An
\* exception of load_config leaves main() uncaught: the process ends with a
\* traceback and status 1.
Director_init ==
  /\ pc = "start" /\ impl = "director"
  /\ IF load_config_ok(config)
     THEN /\ llm_client' = setup_llm_client(config.evaluator_model)
          /\ log_file' = clear_log_file(log_file)
          /\ pc' = "direct"
          /\ UNCHANGED exit_status
     ELSE /\ pc' = "done"
          /\ exit_status' = 1
          /\ UNCHANGED <<llm_client, log_file>>
  /\ UNCHANGED <<call_vars, logger_vars, adw_status, impl, config, strategy, iteration, current_iteration, success, evaluation,
                 last_evaluation, execution_output, last_execution_output,
                 eval_input, prompt, trace, result>>

\* direct(), lines 600-605
direct_begin ==
  /\ pc = "direct" /\ impl = "director"
  /\ log_file' = Append_lines(log_file, <<"start", "editable", "read_only">>)
  /\ evaluation' = NoEvaluation
  /\ success' = FALSE
  /\ iteration' = 0
  /\ pc' = "loop"
  /\ UNCHANGED <<call_vars, logger_vars, adw_status, impl, config, strategy, current_iteration, last_evaluation, execution_output,
                 last_execution_output, eval_input, prompt, llm_client, trace,
                 result, exit_status>>

\* a prompt builder that wraps the task at every iteration
create_prompt_AlwaysComposite(it, ev, leo, c) ==
  [built |-> TRUE, task |-> TRUE, verbatim |-> FALSE,
   output |-> IF leo.set THEN leo.text ELSE <<>>,
   feedback |-> ev.feedback,
   has_remaining |-> TRUE, remaining |-> c.max_iterations - it,
   final |-> FALSE]

\* Director.create_prompt: task says the prompt embeds config.prompt,
\* verbatim that it is config.prompt and nothing else
create_prompt(it, ev, leo, c) ==
  IF it = 0
  THEN [built |-> TRUE, task |-> TRUE, verbatim |-> TRUE, output |-> <<>>, feedback |-> <<>>,
        has_remaining |-> FALSE, remaining |-> 0, final |-> FALSE]
  ELSE [built |-> TRUE, task |-> TRUE, verbatim |-> FALSE,
        output |-> IF leo.set THEN leo.text ELSE <<>>,
        feedback |-> ev.feedback,
        has_remaining |-> TRUE, remaining |-> c.max_iterations - it,
        final |-> FALSE]

\* the head of `for iteration in range(max_iterations)` and lines 608-612
direct_loop ==
  /\ pc = "loop" /\ impl = "director"
  /\ IF iteration < config.max_iterations
     THEN /\ log_file' = Append_lines(log_file, <<"separator", "iteration">>)
          /\ prompt' = create_prompt(iteration, evaluation, last_execution_output, config)
          /\ trace' = Append(trace, "iter")
          /\ pc' = "coder"
     ELSE /\ pc' = "end"
          /\ UNCHANGED <<log_file, prompt, trace>>
  /\ UNCHANGED <<call_vars, logger_vars, adw_status, impl, config, strategy, iteration, current_iteration, success, evaluation,
                 last_evaluation, execution_output, last_execution_output,
                 eval_input, llm_client, result, exit_status>>

\* a Director that goes on to the command after a failed coder call
CoderRaisedNext_Continue == "exec"

\* a Director that evaluates right after a failed coder call
CoderRaisedNext_Evaluate == "eval"

\* where the loop goes when the coder call raised: break
CoderRaisedNext == "end"

\* Director.execute_ai_code and lines 615-617 of direct()
execute_ai_code ==
  /\ pc = "coder" /\ impl = "director"
  /\ \E o \in {"ok", "raise"} :
       /\ trace' = Append(trace, IF o = "ok" THEN "coder:ok" ELSE "coder:raise")
       /\ IF o = "ok"
          THEN /\ log_file' = Append_lines(log_file, <<"coder", "prompt">>)
               /\ pc' = "exec"
          ELSE /\ log_file' = Append_lines(log_file,
                                 <<"coder", "prompt", "coder_error", "coder_failed">>)
               /\ pc' = CoderRaisedNext
  /\ UNCHANGED <<call_vars, logger_vars, adw_status, impl, config, strategy, iteration, current_iteration, success, evaluation,
                 last_evaluation, execution_output, last_execution_output,
                 eval_input, prompt, llm_client, result, exit_status>>

\* what subprocess.run can do: complete with an output, exceed the timeout,
\* or raise another exception with text str(e)
CommandOutcomes ==
  [kind : {"ok"}, text : NormalOutputs] \cup [kind : {"timeout"}, text : {<<>>}]
    \cup [kind : {"error"}, text : ExceptionTexts]

\* a command executor whose failure paths return the bare exception text
CommandOutput_NoSentinel(c) == c.text

\* the text run_execution_command returns (the same in both implementations)
CommandOutput(c) ==
  IF c.kind = "ok" THEN c.text
  ELSE IF c.kind = "timeout" THEN TimeoutText
  ELSE ErrorPrefix \o c.text

\* what the trace records of a command execution
ExecEvent(c) ==
  IF c.kind = "ok" THEN "exec:ok"
  ELSE IF c.kind = "timeout" THEN "exec:timeout" ELSE "exec:error"

\* Director.run_execution_command and line 620 of direct()
run_execution_command ==
  /\ pc = "exec" /\ impl = "director"
  /\ \E c \in CommandOutcomes :
       /\ execution_output' = CommandOutput(c)
       /\ last_execution_output' = IF c.kind = "ok" THEN Text(CommandOutput(c))
                                   ELSE last_execution_output
       /\ log_file' = Append_lines(log_file,
                         <<"exec", IF c.kind = "ok" THEN "exec_output"
                                   ELSE IF c.kind = "timeout" THEN "exec_timeout"
                                   ELSE "exec_error">>)
       /\ trace' = Append(trace, ExecEvent(c))
  /\ pc' = "eval"
  /\ UNCHANGED <<call_vars, logger_vars, adw_status, impl, config, strategy, iteration, current_iteration, success, evaluation,
                 last_evaluation, eval_input, prompt, llm_client, result, exit_status>>

\* a loop without the `break` on success
AfterVerdict_NoBreak(ok) == "loop"

\* where the loop goes after a verdict: `break` on success, else the next
\* value of the loop variable
AfterVerdict(ok) == IF ok THEN "end" ELSE "loop"

\* Director.evaluate_result and lines 623-631 of direct()
direct_evaluate ==
  /\ pc = "eval" /\ impl = "director"
  /\ \E j \in JudgeOutcomes :
       \E r \in {evaluate_result(config.evaluator, execution_output,
                                 config.evaluator_model, llm_client, ReplyFor(j))} :
           /\ evaluation' = r.result
           /\ eval_input' = Text(execution_output)
           /\ strategy' = r.strategy
           /\ trace' = trace \o r.judge
                             \o <<IF r.result.success THEN "eval:success" ELSE "eval:failure">>
           /\ log_file' = Append_lines(log_file,
                             r.log \o <<IF r.result.success THEN "success" ELSE "failed">>)
           /\ success' = IF r.result.success THEN TRUE ELSE success
           /\ pc' = AfterVerdict(r.result.success)
           /\ iteration' = IF r.result.success THEN iteration ELSE iteration + 1
  /\ UNCHANGED <<call_vars, logger_vars, adw_status, impl, config, current_iteration, last_evaluation, execution_output,
                 last_execution_output, prompt, llm_client, result, exit_status>>

\* direct(), lines 633-638, and main(), lines 646-648
direct_end ==
  /\ pc = "end" /\ impl = "director"
  /\ log_file' = Append_lines(log_file,
                    <<IF success THEN "completed_success" ELSE "completed_without_success">>)
  /\ result' = Bool(success)
  /\ exit_status' = IF success THEN 0 ELSE 1
  /\ pc' = "done"
  /\ UNCHANGED <<call_vars, logger_vars, adw_status, impl, config, strategy, iteration, current_iteration, success, evaluation,
                 last_evaluation, execution_output, last_execution_output,
                 eval_input, prompt, llm_client, trace>>

\* adw-create.py main, lines 295-311, when it ran director.py on the workflow
\* it created: result.returncode is the status of the Director process and
\* decides only what is printed and whether repomix packs the repository
\* (which touches nothing of the run); main returns 0
adw_create_main ==
  /\ pc = "done" /\ impl = "director"
  /\ adw_status = 0 - 1
  /\ adw_status' = 0
  /\ UNCHANGED <<call_vars, logger_vars, impl, config, pc, iteration, current_iteration, success,
                 evaluation, last_evaluation, execution_output, last_execution_output,
                 eval_input, prompt, llm_client, log_file, strategy, trace, result,
                 exit_status>>

(***************************************************************************)
(* WorkflowAgent (src/bin/pydantic_adw/agent.py) under cli.run_workflow    *)
(***************************************************************************)
\* load_workflow: WorkflowConfig(**config_dict) validates the evaluator tag;
\* validate_paths only converts the listed paths, it checks nothing on disk
load_workflow_ok(c) == c.evaluator \in WorkflowTags

\* logger.info / logger.error of the module-level logger "adw": every
\* record is handed to every FileHandler attached to it.  The lines this
\* step wrote to the run's own log are the records logged; the handler a
\* former run attached is still attached and writes them to that run's file
callHandlers ==
  first_log' = IF run_no = 2 /\ 1 \in handlers
               THEN Append_lines(first_log,
                                 SubSeq(log_file'.lines, Len(log_file.lines) + 1,
                                        Len(log_file'.lines)))
               ELSE first_log

\* WorkflowAgent._setup_logging: logging.FileHandler(log_file) opens the
\* file for appending, then four lines are logged
setup_logging(f) ==
  Append_lines(f, <<"starting_workflow", "max_iterations", "coder_model", "evaluator_model">>)

\* run_workflow, lines 113-136: load_workflow, WorkflowDependencies(...),
\* WorkflowAgent(deps).  A load error is caught by lines 140-144: printed,
\* and run_workflow returns False, which main() turns into status 1.
run_workflow_begin ==
  /\ pc = "start" /\ impl = "agent"
  /\ IF load_workflow_ok(config)
     THEN /\ log_file' = setup_logging(log_file)
          /\ handlers' = handlers \cup {run_no}
          /\ current_iteration' = 0
          /\ last_execution_output' = Text(<<>>)
          /\ last_evaluation' = NoEvaluation
          /\ pc' = "run"
          /\ UNCHANGED exit_status
     ELSE /\ pc' = "done"
          /\ exit_status' = 1
          /\ UNCHANGED <<log_file, handlers, current_iteration, last_execution_output,
                         last_evaluation>>
  /\ callHandlers
  /\ UNCHANGED <<call_vars, run_no, adw_status, impl, config, strategy, iteration, success, evaluation, execution_output,
                 eval_input, prompt, llm_client, trace, result>>

\* WorkflowAgent.run, lines 424-429
run_begin ==
  /\ pc = "run" /\ impl = "agent"
  /\ log_file' = Append_lines(log_file, <<"starting", "prompt">>)
  /\ success' = FALSE
  /\ iteration' = 0
  /\ pc' = "loop"
  /\ callHandlers
  /\ UNCHANGED <<call_vars, run_no, handlers, adw_status, impl, config, strategy, current_iteration, evaluation, last_evaluation,
                 execution_output, last_execution_output, eval_input, prompt,
                 llm_client, trace, result, exit_status>>

\* the head of `for iteration in range(config.max_iterations)`, lines 431-438
run_loop ==
  /\ pc = "loop" /\ impl = "agent"
  /\ IF iteration < config.max_iterations
     THEN /\ log_file' = Append_lines(log_file, <<"iteration", "coder">>)
          /\ current_iteration' = iteration
          /\ trace' = Append(trace, "iter")
          /\ pc' = "coder"
     ELSE /\ pc' = "end"
          /\ UNCHANGED <<log_file, current_iteration, trace>>
  /\ callHandlers
  /\ UNCHANGED <<call_vars, run_no, handlers, adw_status, impl, config, strategy, iteration, success, evaluation, last_evaluation,
                 execution_output, last_execution_output, eval_input, prompt,
                 llm_client, result, exit_status>>

\* the [:2000] cut of coder_system_prompt
TruncateAt == 2000
Truncated(t) == IF Len(t) > TruncateAt THEN SubSeq(t, 1, TruncateAt) \o <<".", ".", ".">> ELSE t

\* a system prompt that never holds the final-attempt clause
coder_system_prompt_NoFinal(cur, lev, leo, c) ==
  IF cur > 0 /\ lev.set
  THEN [built |-> TRUE, task |-> TRUE, verbatim |-> FALSE,
        output |-> Truncated(leo.text),
        feedback |-> lev.feedback,
        has_remaining |-> FALSE, remaining |-> 0,
        final |-> FALSE]
  ELSE [built |-> TRUE, task |-> TRUE, verbatim |-> FALSE, output |-> <<>>, feedback |-> <<>>,
        has_remaining |-> FALSE, remaining |-> 0, final |-> FALSE]

\* coder_system_prompt: task says the prompt embeds config.prompt
coder_system_prompt(cur, lev, leo, c) ==
  IF cur > 0 /\ lev.set
  THEN [built |-> TRUE, task |-> TRUE, verbatim |-> FALSE,
        output |-> Truncated(leo.text),
        feedback |-> lev.feedback,
        has_remaining |-> FALSE, remaining |-> 0,
        final |-> (cur = c.max_iterations - 1)]
  ELSE [built |-> TRUE, task |-> TRUE, verbatim |-> FALSE, output |-> <<>>, feedback |-> <<>>,
        has_remaining |-> FALSE, remaining |-> 0, final |-> FALSE]

\* WorkflowAgent.run, lines 440-447: the coder call; an exception is logged
\* and the iteration goes on ("Try to continue with execution")
run_coder ==
  /\ pc = "coder" /\ impl = "agent"
  /\ prompt' = coder_system_prompt(current_iteration, last_evaluation,
                                   last_execution_output, config)
  /\ \E o \in {"ok", "raise"} :
       /\ trace' = Append(trace, IF o = "ok" THEN "coder:ok" ELSE "coder:raise")
       /\ log_file' = IF o = "ok" THEN log_file
                      ELSE Append_lines(log_file, <<"coder_error">>)
  /\ pc' = "exec"
  /\ callHandlers
  /\ UNCHANGED <<call_vars, run_no, handlers, adw_status, impl, config, strategy, iteration, current_iteration, success, evaluation,
                 last_evaluation, execution_output, last_execution_output,
                 eval_input, llm_client, result, exit_status>>

\* WorkflowAgent.run_execution_command and lines 450-453 of run()
agent_run_execution_command ==
  /\ pc = "exec" /\ impl = "agent"
  /\ \E c \in CommandOutcomes :
       /\ execution_output' = CommandOutput(c)
       /\ last_execution_output' = Text(CommandOutput(c))
       /\ trace' = Append(trace, ExecEvent(c))
  /\ log_file' = Append_lines(log_file, <<"exec", "exec_completed", "evaluator">>)
  /\ pc' = "eval"
  /\ callHandlers
  /\ UNCHANGED <<call_vars, run_no, handlers, adw_status, impl, config, strategy, iteration, current_iteration, success, evaluation,
                 last_evaluation, eval_input, prompt, llm_client, result, exit_status>>

\* a run() that gives up when the evaluator agent raises
EvaluatorRaisedNext_Abort == "end"

\* where the loop goes when the evaluator agent raised: the except branch
\* of lines 476-478 falls through to the next value of the loop variable
EvaluatorRaisedNext == "loop"

\* WorkflowAgent.run, lines 458-478: the evaluator agent's call; its prompt
\* embeds deps.last_execution_output
run_evaluate ==
  /\ pc = "eval" /\ impl = "agent"
  /\ eval_input' = last_execution_output
  /\ strategy' = "structured"
  /\ \E o \in AgentOutcomes :
       IF o = "raise"
       THEN /\ trace' = trace \o <<JudgeEvent(TRUE, o), "eval:none">>
            /\ log_file' = Append_lines(log_file, <<"evaluator_error">>)
            /\ iteration' = iteration + 1
            /\ pc' = EvaluatorRaisedNext
            /\ UNCHANGED <<last_evaluation, success>>
       ELSE /\ last_evaluation' = EvaluationResult(o = "success", JudgeFeedback)
            /\ trace' = trace \o <<"judge:ok", IF o = "success" THEN "eval:success" ELSE "eval:failure">>
            /\ log_file' = Append_lines(log_file,
                              <<"evaluation", IF o = "success" THEN "completed_success" ELSE "failed">>)
            /\ success' = IF o = "success" THEN TRUE ELSE success
            /\ iteration' = IF o = "success" THEN iteration ELSE iteration + 1
            /\ pc' = AfterVerdict(o = "success")
  /\ callHandlers
  /\ UNCHANGED <<call_vars, run_no, handlers, adw_status, impl, config, current_iteration, evaluation, execution_output,
                 last_execution_output, prompt, llm_client, result, exit_status>>

\* what the trace records of a failure analysis
AnalyzeEvent(a) == IF a = "ok" THEN "analyze:ok" ELSE "analyze:raise"

\* a run() that analyses every failure, evaluated or not
AnalysisDue_AnyFailure(ok, lev) == ~ok

\* a run() that never analyses a failure
AnalysisDue_Never(ok, lev) == FALSE

\* the condition of line 480: failure analysis runs
AnalysisDue(ok, lev) == ~ok /\ lev.set

\* WorkflowAgent.run, lines 480-492, with analyze_failure (344-415).  The
\* call of failure_agent.run is not inside a try: when it raises, the
\* exception leaves analyze_failure and run().
run_end ==
  /\ pc = "end" /\ impl = "agent"
  /\ IF AnalysisDue(success, last_evaluation)
     THEN \E a \in AnalyzerOutcomes :
            /\ trace' = Append(trace, AnalyzeEvent(a))
            /\ IF a = "ok"
               THEN /\ log_file' = Append_lines(log_file,
                          <<"analyzing", "analysis_completed", "workflow_failed",
                            "root_causes", "affected_files", "logs_at">>)
                    /\ result' = Bool(success)
               ELSE /\ log_file' = Append_lines(log_file, <<"analyzing">>)
                    /\ result' = "raised"
     ELSE /\ result' = Bool(success)
          /\ UNCHANGED <<trace, log_file>>
  /\ pc' = "returned"
  /\ callHandlers
  /\ UNCHANGED <<call_vars, run_no, handlers, adw_status, impl, config, strategy, iteration, current_iteration, success, evaluation,
                 last_evaluation, execution_output, last_execution_output,
                 eval_input, prompt, llm_client, exit_status>>

\* run_workflow, lines 137-144, and main(), lines 200-202: an exception that
\* left agent.run() is printed with its traceback and becomes False
run_workflow_end ==
  /\ pc = "returned" /\ impl = "agent"
  /\ exit_status' = IF result = "True" THEN 0 ELSE 1
  /\ pc' = "done"
  /\ UNCHANGED <<call_vars, logger_vars, adw_status, impl, config, strategy, iteration, current_iteration, success, evaluation,
                 last_evaluation, execution_output, last_execution_output,
                 eval_input, prompt, llm_client, log_file, trace, result>>

Next ==
  \/ Director_init
  \/ direct_begin
  \/ direct_loop
  \/ execute_ai_code
  \/ run_execution_command
  \/ direct_evaluate
  \/ direct_end
  \/ adw_create_main
  \/ run_workflow_begin
  \/ run_begin
  \/ run_loop
  \/ run_coder
  \/ agent_run_execution_command
  \/ run_evaluate
  \/ run_end
  \/ run_workflow_end

Spec == Init /\ [][Next]_vars

\* every step of the controller that is enabled is eventually taken: the
\* program is sequential and each external call returns or raises
FairSpec == Spec /\ WF_vars(Next)

(***************************************************************************)
(* Two runs, one after the other, in one process                           *)
(***************************************************************************)
\* a second Director(config) / run_workflow(name) in the process of the
\* first, with another log destination: the locals of direct() / run() and
\* the attributes of the new Director are fresh; what run_workflow builds
\* anew (WorkflowDependencies, the FileHandler) it builds in its own steps
next_run ==
  /\ pc = "done" /\ run_no = 1
  /\ run_no' = 2
  /\ first_log' = log_file
  /\ log_file' \in InitialLogFiles
  /\ pc' = "start"
  /\ iteration' = 0
  /\ success' = FALSE
  /\ evaluation' = NoEvaluation
  /\ execution_output' = <<>>
  /\ last_execution_output' = IF impl = "director" THEN Unset ELSE last_execution_output
  /\ eval_input' = Unset
  /\ prompt' = NoPrompt
  /\ llm_client' = "none"
  /\ strategy' = "none"
  /\ trace' = <<>>
  /\ result' = "none"
  /\ exit_status' = 0 - 1
  /\ UNCHANGED <<call_vars, adw_status, impl, config, current_iteration, last_evaluation,
                 handlers>>

\* the descriptors of the two runs: one iteration, token evaluator
TwoRunsInit ==
  /\ Init
  /\ config.max_iterations = 1
  /\ config.evaluator = "unittest"
  /\ config.evaluator_model = TokClaude
  /\ config.paths_exist

TwoRunsNext ==
  \/ Next
  \/ next_run

TwoRunsSpec == TwoRunsInit /\ [][TwoRunsNext]_vars

(***************************************************************************)
(* The Director's evaluators applied to one execution output               *)
(***************************************************************************)
\* number of pieces an execution output is put together from
MaxPieces == 3

\* what test runners and commands print, in pieces
OutputPieces == { TokOK, Lower(TokOK), TokFAILED, TokFailed, TokERROR, TokError,
                  TokPassed, <<"P","A","S","S","E","D">>, <<" ">> }

RECURSIVE Flatten(_)
\* the pieces written one after the other
Flatten(ps) == IF ps = <<>> THEN <<>> ELSE Head(ps) \o Flatten(Tail(ps))

\* the execution outputs handed to an evaluator
OutputTexts == { Flatten(ps) : ps \in UNION { [1..n -> OutputPieces] : n \in 0..MaxPieces } }

\* a Director constructed from a loadable descriptor, before direct() runs
DirectorAtRest ==
  /\ impl = "director"
  /\ config \in {c \in Configs : c.paths_exist /\ c.max_iterations = 1
                                  /\ c.evaluator = "default"}
  /\ llm_client = setup_llm_client(config.evaluator_model)
  /\ log_file = [exists |-> TRUE, lines |-> <<"header">>]
  /\ pc = "call"
  /\ iteration = 0
  /\ current_iteration = 0
  /\ success = FALSE
  /\ evaluation = NoEvaluation
  /\ last_evaluation = NoEvaluation
  /\ last_execution_output = Unset
  /\ eval_input = Unset
  /\ prompt = NoPrompt
  /\ strategy = "none"
  /\ trace = <<>>
  /\ result = "none"
  /\ exit_status = 0 - 1
  /\ payload = Unset
  /\ applied = "none"
  /\ adw_status = 0 - 1
  /\ constructed = "none"
  /\ write_call = NoWriteCall
  /\ write_result = "none"
  /\ file_system = {}
  /\ run_no = 1
  /\ handlers = {}
  /\ first_log = NoFile

\* the variables an evaluator call leaves alone
rest_vars == <<impl, config, pc, iteration, current_iteration, success, last_evaluation,
               execution_output, last_execution_output, eval_input, prompt, llm_client,
               log_file, trace, result, exit_status, response, source, adw_status,
               tool_vars, logger_vars>>

EvaluatorInit ==
  /\ DirectorAtRest
  /\ execution_output \in OutputTexts
  /\ response = NoResponse
  /\ source = NoSource

\* self._unittest_evaluator(execution_output)
apply_unittest_evaluator ==
  /\ applied = "none"
  /\ evaluation' = unittest_evaluator(execution_output).result
  /\ strategy' = "unittest"
  /\ applied' = "unittest_evaluator"
  /\ UNCHANGED <<rest_vars, payload>>

\* self._pytest_evaluator(execution_output)
apply_pytest_evaluator ==
  /\ applied = "none"
  /\ evaluation' = pytest_evaluator(execution_output).result
  /\ strategy' = "pytest"
  /\ applied' = "pytest_evaluator"
  /\ UNCHANGED <<rest_vars, payload>>

EvaluatorNext ==
  \/ apply_unittest_evaluator
  \/ apply_pytest_evaluator

EvaluatorSpec == EvaluatorInit /\ [][EvaluatorNext]_vars

(***************************************************************************)
(* Payload extraction applied to one reply text                            *)
(***************************************************************************)
\* number of pieces a reply text is put together from
MaxReplyPieces == 6

\* what a reply is made of: fences, letters, blanks
ReplyPieces == { Fence, JsonFence, <<"a">>, <<"b">>, <<" ">> }

\* the reply texts handed to the extraction
ReplyTexts ==
  { Flatten(ps) : ps \in UNION { [1..n -> ReplyPieces] : n \in 0..MaxReplyPieces } }

ExtractInit ==
  /\ DirectorAtRest
  /\ execution_output = <<>>
  /\ response \in { TextReply(t) : t \in ReplyTexts }
  /\ source = NoSource

\* the variables the extraction leaves alone
extract_rest_vars == <<rest_vars, evaluation, strategy>>

\* lines 379-385 of _default_evaluator
apply_default_extract ==
  /\ applied = "none"
  /\ payload' = Text(DefaultExtract(response.text))
  /\ applied' = "default_extract"
  /\ UNCHANGED extract_rest_vars

\* lines 527-531 of _structured_evaluator
apply_structured_extract ==
  /\ applied = "none"
  /\ payload' = Text(StructuredExtract(response.text))
  /\ applied' = "structured_extract"
  /\ UNCHANGED extract_rest_vars

ExtractNext ==
  \/ apply_default_extract
  \/ apply_structured_extract

ExtractSpec == ExtractInit /\ [][ExtractNext]_vars

(***************************************************************************)
(* The judging evaluators applied to one reply of the judgment capability  *)
(***************************************************************************)
\* how a reply presents its JSON
WrapStyles == {"bare", "padded", "json_fence", "plain_fence"}

\* the reply text around a serialized object
Wrap(style, t) ==
  CASE style = "bare" -> t
    [] style = "padded" -> <<" ">> \o t \o <<"\n">>
    [] style = "json_fence" ->
         <<"V","e","r","d","i","c","t",":","\n">> \o JsonFence \o <<"\n">> \o t \o <<"\n">> \o Fence \o <<"\n","D","o","n","e",".">>
    [] style = "plain_fence" ->
         <<"V","e","r","d","i","c","t",":","\n">> \o Fence \o <<"\n">> \o t \o <<"\n">> \o Fence \o <<"\n","D","o","n","e",".">>

\* the execution outputs handed to a judging evaluator
JudgedOutputs == NormalOutputs \cup OutputPieces

JudgmentInit ==
  /\ DirectorAtRest
  /\ execution_output \in JudgedOutputs
  /\ \/ response = RaisedReply /\ source = NoSource
     \/ response = TextReply(NotJsonText) /\ source = NoSource
     \/ \E d \in JsonDocs, w \in WrapStyles :
          /\ source = [kind |-> "doc", doc |-> d, wrap |-> w]
          /\ response = TextReply(Wrap(w, Dumps(d)))

\* the variables a judging evaluator leaves alone
judged_rest_vars == <<impl, config, pc, iteration, current_iteration, success,
                      last_evaluation, execution_output, last_execution_output,
                      eval_input, prompt, llm_client, result, exit_status, response, source,
                      adw_status, tool_vars, logger_vars>>

\* self._default_evaluator(execution_output)
apply_default_evaluator ==
  /\ applied = "none"
  /\ \E r \in {default_evaluator(execution_output, config.evaluator_model,
                                  llm_client, response)} :
         /\ evaluation' = r.result
         /\ payload' = r.payload
         /\ strategy' = r.strategy
         /\ trace' = trace \o r.judge
         /\ log_file' = Append_lines(log_file, r.log)
  /\ applied' = "default_evaluator"
  /\ UNCHANGED judged_rest_vars

\* self._structured_evaluator(execution_output)
apply_structured_evaluator ==
  /\ applied = "none"
  /\ \E r \in {structured_evaluator(execution_output, config.evaluator_model,
                                     llm_client, response)} :
         /\ evaluation' = r.result
         /\ payload' = r.payload
         /\ strategy' = r.strategy
         /\ trace' = trace \o r.judge
         /\ log_file' = Append_lines(log_file, r.log)
  /\ applied' = "structured_evaluator"
  /\ UNCHANGED judged_rest_vars

JudgmentNext ==
  \/ apply_default_evaluator
  \/ apply_structured_evaluator

JudgmentSpec == JudgmentInit /\ [][JudgmentNext]_vars

(***************************************************************************)
(* StructuredEvaluation constructed from a task_completion on a grid       *)
(***************************************************************************)
\* how far the grid of hundredths reaches below 0.0 and above 1.0
GridMargin == 50

\* the task_completion values handed to the constructor, in hundredths
Hundredths == (0 - GridMargin)..(One + GridMargin)

ConstructInit ==
  /\ DirectorAtRest
  /\ execution_output = <<>>
  /\ response = NoResponse
  /\ \E s \in BOOLEAN, h \in Hundredths :
       source = [kind |-> "doc", doc |-> [FullDoc(s) EXCEPT !.task_completion = h],
                 wrap |-> "bare"]

\* StructuredEvaluation(success=..., task_completion=..., ...)
construct_StructuredEvaluation ==
  /\ applied = "none"
  /\ constructed' = IF StructuredEvaluation(source.doc).ok THEN "ok" ELSE "ValidationError"
  /\ applied' = "StructuredEvaluation"
  /\ UNCHANGED <<write_call, write_result, file_system>>
  /\ UNCHANGED <<impl, config, pc, iteration, current_iteration, success, evaluation,
                 last_evaluation, execution_output, last_execution_output, eval_input,
                 prompt, llm_client, log_file, strategy, trace, result, exit_status,
                 response, payload, source, adw_status, logger_vars>>

ConstructNext == construct_StructuredEvaluation

ConstructSpec == ConstructInit /\ [][ConstructNext]_vars

(***************************************************************************)
(* The write_file tool of the coder agent                                  *)
(***************************************************************************)
\* largest number of components of a file_path argument
MaxParts == 3

\* the components file paths are put together from
PathComponents == {"src", "docs", "a.py", "..", "."}

\* the file_path arguments, as their components between slashes
FilePaths == UNION { [1..n -> PathComponents] : n \in 1..MaxParts }

\* the context lists of a descriptor: what may be edited, what may be read
ContextLists ==
  [ context_editable : { {<<"src">>}, {<<"src", "a.py">>}, {<<"src">>, <<"docs", "a.py">>} },
    context_read_only : { {}, {<<"docs">>} } ]

RECURSIVE Path(_)
\* pathlib.Path(text).parts: a "." component is dropped, ".." is kept
Path(parts) ==
  IF parts = <<>> THEN <<>>
  ELSE IF Head(parts) = "." THEN Path(Tail(parts))
  ELSE <<Head(parts)>> \o Path(Tail(parts))

\* PurePath.is_relative_to: p's parts are the leading parts of path's, as
\* they are written
is_relative_to(path, p) == IsPrefix(p, path)

RECURSIVE Walk(_, _)
\* the directory walk of the operating system from the location at: ".."
\* goes to the parent (above the working directory it stays "..")
Walk(at, parts) ==
  IF parts = <<>> THEN at
  ELSE IF Head(parts) = ".."
  THEN Walk(IF at # <<>> /\ at[Len(at)] # ".." THEN SubSeq(at, 1, Len(at) - 1)
            ELSE Append(at, ".."),
            Tail(parts))
  ELSE Walk(Append(at, Head(parts)), Tail(parts))

\* the location open(path, "w") writes to
Location(path) == Walk(<<>>, path)

\* the test of write_file, line 267: any(path.is_relative_to(p) for p in
\* editable_files)
Editable(path, editable_files) ==
  \E p \in editable_files : is_relative_to(path, Path(p))

\* the coder agent is at work in the first iteration of a run and calls a tool
CoderAtWork ==
  /\ impl = "agent"
  /\ config \in {c \in AgentConfigs : c.paths_exist /\ c.max_iterations = 1
                                       /\ c.evaluator = "structured"}
  /\ llm_client = "none"
  /\ log_file = Append_lines(setup_logging(NoFile), <<"starting", "prompt", "iteration", "coder">>)
  /\ pc = "coder"
  /\ iteration = 0
  /\ current_iteration = 0
  /\ success = FALSE
  /\ evaluation = NoEvaluation
  /\ last_evaluation = NoEvaluation
  /\ execution_output = <<>>
  /\ last_execution_output = Text(<<>>)
  /\ eval_input = Unset
  /\ prompt = NoPrompt
  /\ strategy = "none"
  /\ trace = <<"iter">>
  /\ result = "none"
  /\ exit_status = 0 - 1
  /\ response = NoResponse
  /\ payload = Unset
  /\ source = NoSource
  /\ applied = "none"
  /\ adw_status = 0 - 1
  /\ constructed = "none"
  /\ run_no = 1
  /\ handlers = {1}
  /\ first_log = NoFile

WriteInit ==
  /\ CoderAtWork
  /\ \E l \in ContextLists, f \in FilePaths :
       write_call = [context_editable |-> l.context_editable,
                     context_read_only |-> l.context_read_only,
                     file_path |-> f]
  /\ write_result = "none"
  /\ file_system = {}

\* what open(path, "w") can do at a location: the working directory and
\* its ancestors are directories, where it raises; elsewhere it can succeed
\* or raise (a directory in the way, no permission)
OpenOutcomes(location) ==
  IF location = <<>> \/ location[Len(location)] = ".." THEN {"raise"}
  ELSE {"ok", "raise"}

\* write_file(ctx, file_path, content), lines 248-278; a failure of open()
\* is reported by the tool
write_file ==
  /\ applied = "none"
  /\ log_file' = Append_lines(log_file, <<"writing">>)
  /\ callHandlers
  /\ IF ~Editable(Path(write_call.file_path), write_call.context_editable)
     THEN /\ write_result' = "ERROR"
          /\ UNCHANGED file_system
     ELSE \E io \in OpenOutcomes(Location(Path(write_call.file_path))) :
            IF io = "ok"
            THEN /\ file_system' = file_system \cup {Location(Path(write_call.file_path))}
                 /\ write_result' = "Successfully"
            ELSE /\ write_result' = "ERROR"
                 /\ UNCHANGED file_system
  /\ applied' = "write_file"
  /\ UNCHANGED <<impl, config, pc, iteration, current_iteration, success, evaluation,
                 last_evaluation, execution_output, last_execution_output, eval_input,
                 prompt, llm_client, strategy, trace, result, exit_status,
                 response, payload, source, adw_status, constructed, write_call,
                 run_no, handlers>>

WriteNext == write_file

WriteSpec == WriteInit /\ [][WriteNext]_vars

(***************************************************************************)
(* What a run did, read off the trace                                      *)
(***************************************************************************)
VerdictEvents == {"eval:success", "eval:failure", "eval:none"}
ExecEvents == {"exec:ok", "exec:timeout", "exec:error"}
JudgeFailures == {"judge:unroutable", "judge:raise", "judge:unparsable"}
AnalyzeEvents == {"analyze:ok", "analyze:raise"}
IsVerdict(e) == e \in VerdictEvents
\* the outcome of the evaluation step of each iteration, in order
Verdicts == SelectSeq(trace, IsVerdict)
Iterations == Count("iter")
CoderCalls == Count("coder:ok") + Count("coder:raise")
Executions == Count("exec:ok") + Count("exec:timeout") + Count("exec:error")
JudgmentCalls == Count("judge:ok") + Count("judge:raise") + Count("judge:unparsable")
Analyses == Count("analyze:ok") + Count("analyze:raise")
LogHas(l) == \E i \in DOMAIN log_file.lines : log_file.lines[i] = l
\* direct() / run() has ended, by a return or by an exception
RunEnded == pc \in {"returned", "done"} /\ result # "none"

(***************************************************************************)
(* C1                                                                      *)
(***************************************************************************)
\* C1: with max_iterations N >= 1 and a coder that never raises, when the
\* evaluator reports failure on iterations 1..k-1 and success on iteration
\* k <= N, the run has performed exactly k iterations (k coder calls, k
\* command executions, k evaluations), nothing follows the k-th evaluation,
\* and the run returns success.
C1_SuccessAtK ==
  \A k \in 1..Len(Verdicts) :
    ( /\ config.max_iterations >= 1
      /\ Count("coder:raise") = 0
      /\ Verdicts[k] = "eval:success"
      /\ \A j \in 1..(k - 1) : Verdicts[j] = "eval:failure" )
    => /\ k <= config.max_iterations
       /\ Iterations = k /\ CoderCalls = k /\ Executions = k /\ Len(Verdicts) = k
       /\ trace[Len(trace)] = "eval:success"
       /\ Analyses = 0
       /\ pc \in {"end", "returned", "done"}
       /\ (RunEnded => result = "True")

\* a run that failed once, then succeeded, and has returned
C1_Witness ==
  /\ pc = "done" /\ result = "True"
  /\ Count("coder:raise") = 0
  /\ Verdicts = <<"eval:failure", "eval:success">>

(***************************************************************************)
(* C2                                                                      *)
(***************************************************************************)
\* the coder never raised and each of the N >= 1 iterations was evaluated
\* as a failure
AllFailed ==
  /\ config.max_iterations >= 1
  /\ Count("coder:raise") = 0
  /\ Len(Verdicts) = config.max_iterations
  /\ \A j \in DOMAIN Verdicts : Verdicts[j] = "eval:failure"

C4_DefiniteResult ==
  (config.paths_exist /\ config.max_iterations >= 1) =>
    /\ CoderCalls <= config.max_iterations
    /\ Executions <= config.max_iterations
    /\ Len(Verdicts) <= config.max_iterations
    /\ (RunEnded => result \in {"True", "False"})

(***************************************************************************)
(* C5                                                                      *)
(***************************************************************************)
\* C5: when, in a run of a valid descriptor, the FailureAnalyzer's judgment
\* call raises or returns an unparsable result, the error is caught and logged, no exception leaves
\* the run, and the run's result is failure.
C5_AnalyzerErrorCaught ==
  (config.paths_exist /\ Count("analyze:raise") > 0)
    => /\ LogHas("analysis_error")
       /\ result = "False"

(***************************************************************************)
(* C6                                                                      *)
(***************************************************************************)
\* the run went through all N >= 1 iterations without a success verdict
Exhausted ==
  /\ RunEnded
  /\ config.max_iterations >= 1
  /\ Len(Verdicts) = config.max_iterations
  /\ Count("eval:success") = 0
\* some evaluation of the run produced a verdict
EvaluationProduced == Count("eval:success") + Count("eval:failure") > 0
\* the run was aborted by a raising coder call
FailFastAbort == impl = "director" /\ Count("coder:raise") > 0

IsExec(e) == e \in ExecEvents
\* the command executions of the run, in order
Execs == SelectSeq(trace, IsExec)

\* C7: a command that times out or fails to execute yields an output that
\* starts with "ERROR:"; the run is neither aborted nor the command retried:
\* the evaluation of the same iteration comes next, and it is given exactly
\* that output.
C7_ErrorOutputEvaluated ==
  /\ \A i \in DOMAIN trace :
       trace[i] \in {"exec:timeout", "exec:error"} =>
         IF i = Len(trace)
         THEN /\ pc = "eval" /\ result = "none"
              /\ StartsWith(ErrorSentinel, execution_output)
         ELSE trace[i + 1] \in JudgeFailures \cup {"judge:ok"} \cup VerdictEvents
  /\ ( /\ Execs # <<>>
       /\ Execs[Len(Execs)] \in {"exec:timeout", "exec:error"}
       /\ Len(Verdicts) = Len(Execs) )
     => /\ StartsWith(ErrorSentinel, execution_output)
        /\ eval_input = Text(execution_output)

\* an evaluation that was given the text of a timed-out command
C7_Witness ==
  /\ Execs # <<>> /\ Execs[Len(Execs)] = "exec:timeout"
  /\ Len(Verdicts) = Len(Execs)
  /\ eval_input = Text(TimeoutText)

(***************************************************************************)
(* C8                                                                      *)
(***************************************************************************)
\* the iteration the i-th event of the trace belongs to
IterationOf(i) == Cardinality({j \in 1..i : trace[j] = "iter"})

\* C8: when, in an iteration that is not the last, the judgment call
\* raises, the model id is unroutable or the response does not parse, the
\* run is not aborted: the iteration ends with a heuristic verdict (default
\* strategy), an explicit failure verdict (structured strategy) or no
\* verdict (WorkflowAgent), and unless the verdict is success the next
\* iteration is started.
C8_EvaluationFailureContinues ==
  \A i \in DOMAIN trace :
    (trace[i] \in JudgeFailures /\ IterationOf(i) < config.max_iterations) =>
      /\ i < Len(trace)
      /\ trace[i + 1] \in VerdictEvents
      /\ (trace[i + 1] = "eval:none" <=> impl = "agent")
      /\ (impl = "director" /\ config.evaluator = "structured" => trace[i + 1] = "eval:failure")
      /\ (trace[i + 1] # "eval:success" =>
            IF i + 1 = Len(trace)
            THEN pc = "loop" /\ iteration < config.max_iterations /\ result = "none"
            ELSE trace[i + 2] = "iter")

\* a WorkflowAgent run whose evaluator call raised and whose next iteration
\* was started
C8_Witness ==
  /\ impl = "agent"
  /\ \E i \in DOMAIN trace :
       /\ trace[i] = "judge:raise"
       /\ i + 2 <= Len(trace)
       /\ trace[i + 1] = "eval:none" /\ trace[i + 2] = "iter"

(***************************************************************************)
(* C9                                                                      *)
(***************************************************************************)
\* C9: when a listed editable or read-only path does not exist, loading
\* fails before any iteration: no coder call, no judgment call and no
\* command execution is made, and the log file is neither created nor
\* truncated.
C9_MissingPathNoEffects ==
  ~config.paths_exist => trace = <<>> /\ log_file \in InitialLogFiles

(***************************************************************************)
(* C10                                                                     *)
(***************************************************************************)
\* the four evaluator tags of the descriptor format
FourTags == {"default", "unittest", "pytest", "structured"}
\* the descriptor was loaded and the run was entered
Accepted == pc = "done" => result # "none"
\* the descriptor was refused when it was loaded: nothing ran
Rejected ==
  /\ pc \in {"start", "done"} /\ trace = <<>> /\ result = "none"
  /\ (pc = "done" => exit_status = 1)

IsUndetermined(ev) == StartsWith(UndeterminedText, ev.feedback)

\* C11: the unittest evaluator's verdict on any execution output is a
\* success exactly when the output contains "OK" and contains neither
\* "FAILED" nor "ERROR" (case-sensitive); an output with none of the three
\* tokens is a failure whose feedback says the result is undetermined
C11_UnittestVerdict ==
  applied = "unittest_evaluator" =>
    LET hasOK == Contains(TokOK, execution_output)
        hasFAILED == Contains(TokFAILED, execution_output)
        hasERROR == Contains(TokERROR, execution_output)
    IN  /\ evaluation.set
        /\ evaluation.success <=> (hasOK /\ ~hasFAILED /\ ~hasERROR)
        /\ (hasFAILED \/ hasERROR) => ~evaluation.success
        /\ (~hasOK /\ ~hasFAILED /\ ~hasERROR) =>
             (~evaluation.success /\ IsUndetermined(evaluation))

\* C11 witness: an output holding both "OK" and "ERROR" was judged a failure
C11_Witness ==
  /\ applied = "unittest_evaluator"
  /\ Contains(TokOK, execution_output)
  /\ Contains(TokERROR, execution_output)
  /\ ~Contains(TokFAILED, execution_output)
  /\ ~evaluation.success

\* C12: the pytest evaluator's verdict on any execution output is a success
\* exactly when the output contains "passed" and does not contain "failed",
\* both in any letter case; an output with neither token is a failure whose
\* feedback says the result is undetermined
C12_PytestVerdict ==
  applied = "pytest_evaluator" =>
    LET hasPassed == Contains(TokPassed, Lower(execution_output))
        hasFailed == Contains(TokFailed, Lower(execution_output))
    IN  /\ evaluation.set
        /\ evaluation.success <=> (hasPassed /\ ~hasFailed)
        /\ hasFailed => ~evaluation.success
        /\ (~hasPassed /\ ~hasFailed) =>
             (~evaluation.success /\ IsUndetermined(evaluation))

\* C12 witness: an output holding "PASSED" and "FAILED" in capitals was
\* judged a failure
C12_Witness ==
  /\ applied = "pytest_evaluator"
  /\ Contains(<<"P","A","S","S","E","D">>, execution_output)
  /\ Contains(TokFAILED, execution_output)
  /\ ~Contains(TokFailed, execution_output)
  /\ ~evaluation.success

(***************************************************************************)
(* C15: payload extraction precedence                                      *)
(***************************************************************************)
\* the content of the first fenced block of t opened by `open`: the text
\* from the end of the first `open` to the next fence, or to the end of t
\* when the block is never closed, without its surrounding whitespace
BlockContent(open, t) ==
  LET opens == {i \in 1..(Len(t) - Len(open) + 1) : SubSeq(t, i, i + Len(open) - 1) = open}
      first == CHOOSE i \in opens : \A j \in opens : i <= j
      from == first + Len(open)
      closes == {j \in from..(Len(t) - Len(Fence) + 1) :
                    SubSeq(t, j, j + Len(Fence) - 1) = Fence}
      upto == IF closes = {} THEN Len(t)
              ELSE (CHOOSE j \in closes : \A k \in closes : j <= k) - 1
  IN  Strip(SubSeq(t, from, upto))

\* the payload the precedence rule selects from a reply text
SelectedPayload(t) ==
  IF Contains(JsonFence, t) THEN BlockContent(JsonFence, t)
  ELSE IF Contains(Fence, t) THEN BlockContent(Fence, t)
  ELSE Strip(t)

\* C15: for every reply text, both evaluators' extraction yields the content
\* of the first json-tagged fenced block if there is one, else the content
\* of the first fenced block if there is one, else the whole text trimmed
\* of surrounding whitespace
C15_ExtractionPrecedence ==
  applied \in {"default_extract", "structured_extract"} =>
    payload = Text(SelectedPayload(response.text))

\* the same rule for the default evaluator's extraction alone
C15_DefaultPrecedence ==
  applied = "default_extract" => payload = Text(SelectedPayload(response.text))

\* the same rule for the structured evaluator's extraction on fenced text
C15_StructuredFenced ==
  (applied = "structured_extract" /\ Contains(Fence, response.text)) =>
    payload = Text(SelectedPayload(response.text))

(***************************************************************************)
(* C13: the default evaluator                                              *)
(***************************************************************************)
\* the judgment call of the default evaluator was made and came back
DefaultCallSucceeded ==
  /\ DefaultInterface(config.evaluator_model) = llm_client
  /\ response.kind = "text"

\* the payload taken from the reply parses to an object with success and
\* feedback
PayloadParses ==
  /\ payload.set
  /\ Loads(payload.text).ok
  /\ {"success", "feedback"} \subseteq Loads(payload.text).doc.keys

\* the execution output holds neither "error" nor "fail" in any letter case
NoErrorNoFail ==
  /\ ~Contains(TokError, Lower(execution_output))
  /\ ~Contains(TokFail, Lower(execution_output))

\* C13: when the default evaluator's judgment call succeeds and its payload
\* parses to {success, feedback}, the verdict is exactly that payload; when
\* the call or the parse fails, the verdict is a success exactly when the
\* execution output holds neither "error" nor "fail", case-insensitively
C13_DefaultVerdict ==
  applied = "default_evaluator" =>
    IF DefaultCallSucceeded /\ PayloadParses
    THEN evaluation = EvaluationResult(Loads(payload.text).doc.success,
                                       Loads(payload.text).doc.feedback)
    ELSE evaluation.set /\ (evaluation.success <=> NoErrorNoFail)

\* C13 witness: on an output without "error" or "fail" the reply's verdict
\* of failure was returned
C13_Witness ==
  /\ applied = "default_evaluator"
  /\ DefaultCallSucceeded /\ PayloadParses
  /\ NoErrorNoFail
  /\ source.kind = "doc" /\ ~source.doc.success
  /\ evaluation = EvaluationResult(FALSE, source.doc.feedback)

\* the other half: a reply that is no JSON, and the heuristic decided
C13_FallbackWitness ==
  /\ applied = "default_evaluator"
  /\ DefaultCallSucceeded /\ ~PayloadParses
  /\ NoErrorNoFail
  /\ evaluation.success

(***************************************************************************)
(* C14: the structured evaluator                                           *)
(***************************************************************************)
\* the serialized object satisfies the StructuredEvaluation schema
ValidSource ==
  /\ source.kind = "doc"
  /\ {"success", "task_completion", "security_check"} \subseteq source.doc.keys
  /\ source.doc.task_completion \in 0..One
  /\ source.doc.risk_level \in RiskLevels

\* the judgment call of the structured evaluator was made and came back
StructuredCallSucceeded ==
  /\ StructuredInterface(config.evaluator_model) = llm_client
  /\ response.kind = "text"

C16_RoundTrip ==
  ( /\ applied = "structured_evaluator"
    /\ StructuredCallSucceeded
    /\ ValidSource /\ source.doc.keys = Keys
    /\ source.wrap = "json_fence" ) =>
      parse_raw(payload.text) = [ok |-> TRUE, doc |-> source.doc]

\* the round trip of the values whose text fields hold no fence
C16_RoundTripFenceFree ==
  ( /\ applied = "structured_evaluator"
    /\ StructuredCallSucceeded
    /\ ValidSource /\ source.doc.keys = Keys
    /\ ~Contains(Fence, source.doc.feedback)
    /\ source.wrap = "json_fence" ) =>
      parse_raw(payload.text) = [ok |-> TRUE, doc |-> source.doc]

(***************************************************************************)
(* C17: exit status of the entry points                                    *)
(***************************************************************************)
\* C17: every entry point that ran a workflow (director.py main, the
\* pydantic_adw cli main, adw-create.py main) exits with status 0 exactly
\* when the run's result is success, and with a non-zero status when the
\* run ended in failure
C17_ExitStatus ==
  /\ (pc = "done" /\ result # "none") => (exit_status = 0 <=> result = "True")
  /\ (adw_status # 0 - 1 /\ result # "none") => (adw_status = 0 <=> result = "True")

\* the same for director.py main and the pydantic_adw cli main alone
C17_DirectEntryPoints ==
  pc = "done" => (exit_status = 0 <=> result = "True")

(***************************************************************************)
(* C18: the run's log file                                                 *)
(***************************************************************************)
\* the run has set up its log: the descriptor was loaded
RunStarted == pc # "start" /\ ~(pc = "done" /\ result = "none")

\* no line of an earlier run is in the log of a started run
NoEarlierLine == RunStarted => ~LogHas("old")

\* from run start on, a step only appends to the log
AppendOnly == RunStarted => IsPrefix(log_file.lines, log_file'.lines)

\* C18: at run start the log file is truncated, so that no line an earlier
\* run wrote to the same path remains, and from then on every step of the
\* run only appends: each later content has each earlier one as a prefix
C18_TruncatedThenAppendOnly == [](NoEarlierLine) /\ [][AppendOnly]_vars

\* the Director's log starts with the header and holds no earlier line
C18_DirectorTruncates ==
  (impl = "director" /\ RunStarted) =>
    (~LogHas("old") /\ Head(log_file.lines) = "header")

\* both implementations only append once the run has started
C18_AppendOnly == [][AppendOnly]_vars

(***************************************************************************)
(* C19..C20: the instruction given to the coder capability                 *)
(***************************************************************************)
\* the instruction of iteration k has just been built: the Director builds
\* it before the coder call, WorkflowAgent's system prompt is built by it
PromptJustBuilt(k) ==
  \/ impl = "director" /\ pc = "coder" /\ iteration = k
  \/ impl = "agent" /\ pc = "exec" /\ current_iteration = k /\ prompt.built

\* C19: at iteration 0 the instruction given to the coder capability is
\* exactly the configured task prompt, nothing prepended or appended
C19_Original == PromptJustBuilt(0) => prompt.verbatim

\* C19 amended: at iteration 0 Director.create_prompt returns exactly the
\* configured task prompt; WorkflowAgent's coder gets a system prompt that
\* embeds the task prompt inside fixed guidance, with no execution output,
\* no feedback and no final-attempt clause
C19_Amended ==
  PromptJustBuilt(0) =>
    /\ prompt.task
    /\ impl = "director" => prompt.verbatim
    /\ impl = "agent" =>
         (~prompt.verbatim /\ prompt.output = <<>> /\ prompt.feedback = <<>>
            /\ ~prompt.has_remaining /\ ~prompt.final)

\* C19 witness: the Director built the instruction of iteration 0, and it
\* is the task prompt
C19_Witness == PromptJustBuilt(0) /\ impl = "director" /\ prompt.verbatim

\* the verdict the run holds when the next instruction is built
HeldVerdict == IF impl = "director" THEN evaluation ELSE last_evaluation

\* the command of the iteration before ran to completion
LastCommandCompleted == Execs # <<>> /\ Execs[Len(Execs)] = "exec:ok"

C20_AgentWitness ==
  /\ PromptJustBuilt(1) /\ impl = "agent" /\ config.max_iterations = 2
  /\ prompt.final /\ prompt.output = execution_output /\ ~prompt.has_remaining

(***************************************************************************)
(* C21: the bounds of task_completion                                      *)
(***************************************************************************)
\* C21: constructing a StructuredEvaluation succeeds if and only if
\* 0.0 <= task_completion <= 1.0, both bounds inclusive; every value of the
\* grid below 0.0 or above 1.0 is rejected with a validation error
C21_InclusiveBounds ==
  applied = "StructuredEvaluation" =>
    /\ constructed = "ok" <=>
         (0 <= source.doc.task_completion /\ source.doc.task_completion <= One)
    /\ constructed # "ok" => constructed = "ValidationError"

\* C21 witness: 1.0 was accepted
C21_Witness ==
  /\ applied = "StructuredEvaluation"
  /\ source.doc.task_completion = One
  /\ constructed = "ok"

\* 1.01 was rejected
C21_RejectedWitness ==
  /\ applied = "StructuredEvaluation"
  /\ source.doc.task_completion = One + 1
  /\ constructed = "ValidationError"

(***************************************************************************)
(* C22: the last execution output                                          *)
(***************************************************************************)
\* C22: after the execution step of every iteration, also one whose command
\* timed out or failed to execute, the last execution output held by the
\* run is the output handed to the evaluator in that iteration, so the
\* prompt of iteration k+1 embeds the output of iteration k, never an older
\* output or an empty string
C22_LastOutputStored ==
  /\ pc = "eval" =>
       (last_execution_output.set /\ last_execution_output.text = execution_output)
  /\ \A k \in 1..MaxN :
       (PromptJustBuilt(k) /\ impl = "director") => prompt.output = execution_output

\* what does hold: WorkflowAgent stores the output of every execution step,
\* and the Director stores the output of every command that completed
C22_StoredWhenCompleted ==
  pc = "eval" =>
    /\ impl = "agent" =>
         (last_execution_output.set /\ last_execution_output.text = execution_output)
    /\ (impl = "director" /\ LastCommandCompleted) =>
         (last_execution_output.set /\ last_execution_output.text = execution_output)

(***************************************************************************)
(* C23: the order of the three suspending steps                            *)
(***************************************************************************)
CoderEvents == {"coder:ok", "coder:raise"}
JudgeEvents == JudgeFailures \cup {"judge:ok"}

\* the trace position at which the iteration of position i started
IterationStart(i) ==
  CHOOSE j \in 1..i : trace[j] = "iter" /\ \A m \in (j + 1)..i : trace[m] # "iter"

\* C23: within a run the coder call, the command execution and the
\* evaluation never overlap and occur in a fixed order: in every iteration
\* the coder call completes before the command execution starts, the
\* execution completes before the evaluation starts, the evaluation of
\* iteration i completes before the coder call of iteration i+1 starts,
\* and no evaluation happens in an iteration without a command execution
C23_StepOrder ==
  \A i \in DOMAIN trace :
    /\ trace[i] = "iter" => (i = 1 \/ trace[i - 1] \in VerdictEvents)
    /\ trace[i] \in CoderEvents => trace[i - 1] = "iter"
    /\ trace[i] \in ExecEvents => trace[i - 1] \in CoderEvents
    /\ trace[i] \in JudgeEvents => trace[i - 1] \in ExecEvents
    /\ trace[i] \in VerdictEvents =>
         /\ trace[i - 1] \in JudgeEvents \cup ExecEvents
         /\ \E e \in (IterationStart(i) + 1)..(i - 1) : trace[e] \in ExecEvents
    /\ trace[i] \in AnalyzeEvents => (i = Len(trace) /\ trace[i - 1] \in VerdictEvents)
    /\ trace[i] \in {"iter"} \cup CoderEvents \cup ExecEvents \cup JudgeEvents
                      \cup VerdictEvents \cup AnalyzeEvents

\* C23 witness: the coder call of a second iteration completed after the
\* evaluation of the first
C23_Witness ==
  /\ Iterations = 2 /\ CoderCalls = 2
  /\ Len(Verdicts) = 1 /\ Executions = 1

(***************************************************************************)
(* C24: two runs in one process                                            *)
(***************************************************************************)
\* how often the line l stands in the file f
LineCount(f, l) == Cardinality({i \in DOMAIN f.lines : f.lines[i] = l})

\* the first run has ended and a second one runs: its log file is left alone
FirstLogUntouched == run_no = 2 => first_log' = first_log

\* each iteration of the second run stands once in the run's own log
OwnLinesOnce == run_no = 2 => LineCount(log_file, "iteration") = Iterations

\* the loop of the second run is entered with an empty iteration state
SecondStartsEmpty ==
  (run_no = 2 /\ pc = "loop" /\ trace = <<>>) =>
    /\ impl = "agent" =>
         (current_iteration = 0 /\ ~last_evaluation.set
            /\ last_execution_output = Text(<<>>))
    /\ impl = "director" => (~evaluation.set /\ ~last_execution_output.set)

\* C24: of two runs executed one after the other in one process with
\* different log destinations, every log line of the second run is written
\* to the second run's log only: the first run's log file is unchanged once
\* the first run has ended, each log line of a run stands exactly once in
\* its own log, and the second run's iteration state starts empty
C24_RunsIsolated ==
  /\ [][FirstLogUntouched]_vars
  /\ [](OwnLinesOnce)
  /\ [](SecondStartsEmpty)

\* what does hold: the Director's second run leaves the first log alone,
\* and in both implementations the second run's own log and iteration
\* state are its own
C24_DirectorIsolated ==
  /\ [][impl = "director" => FirstLogUntouched]_vars
  /\ [](OwnLinesOnce)
  /\ [](SecondStartsEmpty)

(***************************************************************************)
(* C25: one grammar of payload extraction                                  *)
(***************************************************************************)
\* C25: for every judgment response text the extraction of the default
\* evaluator and the extraction of the structured evaluator select the same
\* payload, for a json-tagged fence, for a plain fence and for text with no
\* fence: what either one extracted is what the other one extracts
C25_SingleGrammar ==
  /\ applied = "default_extract" => payload = Text(StructuredExtract(response.text))
  /\ applied = "structured_extract" => payload = Text(DefaultExtract(response.text))

\* what does hold: the two agree on every text that holds a fence, and on
\* every text without a fence that has no whitespace at either end
C25_SameWhenFencedOrTrimmed ==
  (applied \in {"default_extract", "structured_extract"}
     /\ (Contains(Fence, response.text) \/ Strip(response.text) = response.text)) =>
    /\ payload = Text(StructuredExtract(response.text))
    /\ payload = Text(DefaultExtract(response.text))

(***************************************************************************)
(* C26: max_iterations below 1                                             *)
(***************************************************************************)
\* the descriptor was refused when it was loaded: no run began
RejectedAtLoad == pc = "done" /\ result = "none" /\ exit_status = 1

\* C26: a descriptor whose max_iterations is less than 1 is rejected when
\* the configuration is loaded; so every run that starts performs at least
\* one iteration, that is makes at least one coder call before it ends
C26_AtLeastOneIteration ==
  /\ (config.max_iterations < 1 /\ pc # "start") => RejectedAtLoad
  /\ RunEnded => (Iterations >= 1 /\ CoderCalls >= 1)

\* what does hold: a run whose max_iterations is at least 1 makes at least
\* one coder call
C26_PositiveIterates ==
  (RunEnded /\ config.max_iterations >= 1) => (Iterations >= 1 /\ CoderCalls >= 1)

(***************************************************************************)
(* C27: routing of the judgment call                                       *)
(***************************************************************************)
\* C27: for every evaluator model id (containing gpt, containing claude,
\* containing either in upper or mixed case, or containing neither) the
\* backend whose call interface the default and the structured strategy
\* use for the judgment call is the backend setup_llm_client built the
\* client for, so routing alone never makes a judgment call fail
C27_RoutingAgrees ==
  (impl = "director" /\ llm_client # "none") =>
    /\ DefaultInterface(config.evaluator_model) = llm_client
    /\ StructuredInterface(config.evaluator_model) = llm_client
    /\ Count("judge:unroutable") = 0

\* what does hold: for a model id that contains gpt or claude in lower
\* case the three routings agree and no judgment call fails by routing
C27_LowerCaseAgrees ==
  (impl = "director" /\ llm_client # "none"
     /\ (Contains(TokGpt, config.evaluator_model)
           \/ Contains(TokClaude, config.evaluator_model))) =>
    /\ DefaultInterface(config.evaluator_model) = llm_client
    /\ StructuredInterface(config.evaluator_model) = llm_client
    /\ Count("judge:unroutable") = 0

(***************************************************************************)
(* C28: write_file writes editable files only                              *)
(***************************************************************************)
\* the file_path of the call is one of, or lies beneath, an editable entry
BeneathEditable ==
  \E p \in write_call.context_editable :
    IsPrefix(Location(Path(p)), Location(Path(write_call.file_path)))

\* C28: write_file writes a file only if its path is one of, or lies
\* beneath, an entry of context_editable; for every other path, also one
\* listed only in context_read_only and one that leaves an editable
\* directory through ".." components, it returns an ERROR string and
\* leaves the file system unchanged
C28_WritesEditableOnly ==
  applied = "write_file" =>
    /\ write_result \in {"Successfully", "ERROR"}
    /\ write_result = "Successfully" => BeneathEditable
    /\ ~BeneathEditable => (write_result = "ERROR" /\ file_system = {})

\* what does hold: the claim for every path without a ".." component
C28_WithoutDotDot ==
  (applied = "write_file" /\ \A i \in DOMAIN write_call.file_path :
                                write_call.file_path[i] # "..") =>
    /\ write_result = "Successfully" => BeneathEditable
    /\ ~BeneathEditable => (write_result = "ERROR" /\ file_system = {})

(***************************************************************************)
(* C29: the result of a run and its last evaluation                        *)
(***************************************************************************)
IsProduced(e) == e \in {"eval:success", "eval:failure"}
\* the evaluations the run produced, in order
Produced == SelectSeq(trace, IsProduced)

\* C29: a run returns success if and only if the last evaluation performed
\* in it reported success; a run in which no evaluation was produced (the
\* coder aborted the first iteration, or every evaluator call raised)
\* returns failure, and no run returns success after an iteration whose
\* evaluation reported failure unless a later evaluation reported success
C29_ResultIsLastVerdict ==
  RunEnded =>
    /\ result = "True" <=>
         (Produced # <<>> /\ Produced[Len(Produced)] = "eval:success")
    /\ Produced = <<>> => result = "False"
    /\ \A i \in DOMAIN Produced :
         (result = "True" /\ Produced[i] = "eval:failure") =>
           \E j \in (i + 1)..Len(Produced) : Produced[j] = "eval:success"

\* C29 witness: a run whose first evaluator call raised and whose second
\* evaluation reported success has returned success
C29_Witness ==
  /\ RunEnded /\ result = "True"
  /\ Verdicts = <<"eval:none", "eval:success">>

\* a run that produced no evaluation has returned failure
C29_NoEvaluationWitness ==
  /\ RunEnded /\ result = "False"
  /\ config.max_iterations >= 1 /\ Produced = <<>>

(***************************************************************************)
(* C30: the verdict and the output a prompt pairs                          *)
(***************************************************************************)
\* WorkflowAgent has just built a prompt that reads deps.last_evaluation
\* and deps.last_execution_output: the coder prompt of an iteration k > 0,
\* or the failure-analysis prompt
PairingPromptBuilt ==
  /\ impl = "agent"
  /\ last_evaluation.set
  /\ \/ pc = "exec" /\ current_iteration > 0 /\ prompt.built
     \/ Analyses = 1

\* the iteration that produced last_execution_output also stored its verdict
VerdictOfLastOutput == Verdicts # <<>> /\ Verdicts[Len(Verdicts)] # "eval:none"

\* C30: in the WorkflowAgent loop, whenever the coder prompt of an
\* iteration k > 0 or the failure-analysis prompt is built, last_evaluation
\* is the verdict of the iteration that produced last_execution_output; a
\* verdict of an older iteration is never paired with the output of a newer
\* one, even when an evaluator call raised in between
C30_VerdictMatchesOutput == PairingPromptBuilt => VerdictOfLastOutput

\* what does hold: the pairing is right in every run in which no evaluator
\* call raised
C30_MatchesWithoutRaise ==
  (PairingPromptBuilt /\ Count("judge:raise") = 0) => VerdictOfLastOutput

====
